---- MODULE Spec2Model ----
(***************************************************************************)
(* AstraPlay provider aggregation and transfer resolution.                 *)
(*                                                                         *)
(* Part I   the backend registry (electron/providers/provider-manager.ts)  *)
(*          and the search fan-out of the 'torrent:search' and             *)
(*          'torrent:search-episode' handlers                              *)
(*          (electron/main/ipc-handlers.ts).                               *)
(* Part II  the session state of the Real-Debrid acceleration backend      *)
(*          (electron/providers/debrid/real-debrid.ts).                    *)
(* Part III the transfer operations of that backend (addMagnet,            *)
(*          getTransferStatus, getStreamUrl, deleteTransfer) against the   *)
(*          remote service.                                                *)
(* Part IV  one search backend: search, searchEpisode and the parsing of   *)
(*          a result page (electron/providers/scrapers).                   *)
(* Part V   the registry of backend instances and the start and quit of    *)
(*          the application (provider-manager.ts, main process).           *)
(* Part VI  the request channels: preload whitelist, handlers, the account *)
(*          store and the documented search-and-play flow.                 *)
(***************************************************************************)
EXTENDS Integers, Sequences, FiniteSets, TLC

(***************************************************************************)
(* Bounds of the model.                                                    *)
(***************************************************************************)
MaxResults == 2        \* rows on one backend's result page
MaxSeeders == 1        \* seeder counts range over 0..MaxSeeders
NumHashes == 1         \* distinct info hashes the indexes can list
MaxAuthCalls == 2      \* authenticate calls made on the backend
MaxFiles == 2          \* files in one remote torrent
MaxBytes == 2          \* file sizes range over 1..MaxBytes
MaxRows == 3           \* table rows on the result page of one search
MaxNumber == 10        \* season and episode numbers range over 1..MaxNumber
MaxPolls == 2          \* turns of the poll loop of one search-and-play flow

None == "none"         \* JavaScript undefined

(***************************************************************************)
(* Part I: registry and search fan-out                                     *)
(***************************************************************************)
VARIABLES
    scrapers,      \* ProviderManager.scrapers: ids in Map insertion order
    enabled,       \* BaseProvider.enabled of every search backend
    phase,         \* position of the handler: idle, awaiting, returned, threw
    kind,          \* which handler runs: "search" or "episode"
    callData,      \* the payload the renderer passed to the handler
    targets,       \* the handler's local `scrapers`: enabled backends, in order
    outcomes,      \* one promise per target: pending, fulfilled, rejected
    settleOrder,   \* indices of targets in the order their promises settled
    invoked,       \* number of search calls started on each backend by the call
    enabledAtCall, \* the backends that had enabled == true when the call began
    result,        \* the list the handler returned
    error          \* the error the handler threw

searchVars == <<scrapers, enabled, phase, kind, callData, targets, outcomes,
                settleOrder, invoked, enabledAtCall, result, error>>

DefaultScraper == "limetorrents"
ExtraScrapers == {"scraperB", "scraperC"}
ScraperIds == {DefaultScraper} \cup ExtraScrapers
Hashes == 1..NumHashes

\* The index of the first occurrence of x in s (0 when absent).
IndexOf(s, x) ==
    IF \E i \in DOMAIN s : s[i] = x
    THEN CHOOSE i \in DOMAIN s : s[i] = x /\ \A j \in 1..(i - 1) : s[j] # x
    ELSE 0

\* Array.prototype.sort with the comparator (a, b) => b.seeders - a.seeders.
\* The sort is stable: s[i] ends up after every element with more seeders
\* and after the elements with as many seeders that precede it in s.
RankBySeeders(s, i) ==
    Cardinality({j \in DOMAIN s :
        \/ s[j].seeders > s[i].seeders
        \/ s[j].seeders = s[i].seeders /\ j <= i})

SortBySeeders(s) ==
    [k \in 1..Len(s) |-> s[CHOOSE i \in 1..Len(s) : RankBySeeders(s, i) = k]]

\* The rows of one result page that carry a name and an info hash.
Pages ==
    UNION {[1..n -> [infoHash : Hashes, seeders : 0..MaxSeeders]] : n \in 0..MaxResults}

\* parseSearchResults: one TorrentResult per row, then sorted by seeders.
\* `row` stands for the fields that tell two results of one page apart
\* (name, size, magnetUri, uploadDate).
RECURSIVE PushRows(_, _, _)
PushRows(s, page, n) ==
    IF n = 0 THEN <<>>
    ELSE Append(PushRows(s, page, n - 1),
                [infoHash |-> page[n].infoHash, seeders |-> page[n].seeders,
                 providerId |-> s, row |-> n])

ParseSearchResults(s, page) == SortBySeeders(PushRows(s, page, Len(page)))

Pending == [status |-> "pending", value |-> <<>>]
Fulfilled(v) == [status |-> "fulfilled", value |-> v]
Rejected == [status |-> "rejected", value |-> <<>>]

\* MediaSearchSchema / EpisodeSearchSchema
NoData == [missing |-> TRUE]
SearchInputs == [query : {"", "Foo"}]
EpisodeInputs == [seriesName : {"", "Foo"}, season : 0..1, episode : 0..1]

MediaSearchSchema(data) ==
    /\ data # NoData
    /\ data.query # ""

EpisodeSearchSchema(data) ==
    /\ data # NoData
    /\ data.seriesName # ""
    /\ data.season >= 1
    /\ data.episode >= 1

ValidInput(k, data) ==
    IF k = "search" THEN MediaSearchSchema(data) ELSE EpisodeSearchSchema(data)

\* providerManager.getAllScrapers(): the values in Map insertion order
GetAllScrapers == scrapers

EnabledScrapersUnfiltered == GetAllScrapers

\* getAllScrapers().filter(s => s.enabled)
EnabledScrapers == SelectSeq(GetAllScrapers, LAMBDA s : enabled[s])

RECURSIVE AllSettledInCompletionOrder(_, _)
AllSettledInCompletionOrder(outs, order) ==
    IF order = <<>> THEN <<>>
    ELSE <<outs[Head(order)]>> \o AllSettledInCompletionOrder(outs, Tail(order))

\* Promise.allSettled: the outcomes in the order of the input promises,
\* whatever the order in which they settled.
AllSettled(outs, order) == outs

RECURSIVE FlatValues(_)
FlatValues(outs) ==
    IF outs = <<>> THEN <<>> ELSE Head(outs).value \o FlatValues(Tail(outs))

FulfilledValuesUnlessAnyRejected(outs) ==
    IF \E i \in DOMAIN outs : outs[i].status = "rejected" THEN <<>>
    ELSE FlatValues(outs)

FulfilledValuesDeduplicated(outs) ==
    LET all == FlatValues(SelectSeq(outs, LAMBDA o : o.status = "fulfilled"))
    IN  SelectSeq(all, LAMBDA x :
            \A j \in 1..(IndexOf(all, x) - 1) : all[j].infoHash # x.infoHash)

\* results.filter(r => r.status === 'fulfilled').flatMap(r => r.value)
FulfilledValues(outs) ==
    FlatValues(SelectSeq(outs, LAMBDA o : o.status = "fulfilled"))

CanResumeOnFirstSettled(outs) == \E i \in DOMAIN outs : outs[i].status # "pending"

\* the await of Promise.allSettled resumes when no promise is pending
CanResume(outs) == \A i \in DOMAIN outs : outs[i].status # "pending"

SearchInit ==
    /\ scrapers = <<DefaultScraper>>
    /\ enabled = [s \in ScraperIds |-> FALSE]
    /\ phase = "idle"
    /\ kind = "search"
    /\ callData = NoData
    /\ targets = <<>>
    /\ outcomes = <<>>
    /\ settleOrder = <<>>
    /\ invoked = [s \in ScraperIds |-> 0]
    /\ enabledAtCall = {}
    /\ result = <<>>
    /\ error = None

\* ProviderManager.registerProvider for a search backend: Map.set keeps the
\* position of an id that is already present.
RegisterProvider(s) ==
    /\ phase = "idle"
    /\ scrapers' = IF IndexOf(scrapers, s) = 0 THEN Append(scrapers, s) ELSE scrapers
    /\ enabled' = [enabled EXCEPT ![s] = FALSE]
    /\ UNCHANGED <<phase, kind, callData, targets, outcomes, settleOrder, invoked,
                   enabledAtCall, result, error>>

\* LimeTorrentsScraperProvider.initialize
InitializeScraper(s) ==
    /\ phase = "idle"
    /\ IndexOf(scrapers, s) # 0
    /\ enabled' = [enabled EXCEPT ![s] = TRUE]
    /\ UNCHANGED <<scrapers, phase, kind, callData, targets, outcomes, settleOrder,
                   invoked, enabledAtCall, result, error>>

\* LimeTorrentsScraperProvider.shutdown
ShutdownScraper(s) ==
    /\ phase = "idle"
    /\ IndexOf(scrapers, s) # 0
    /\ enabled' = [enabled EXCEPT ![s] = FALSE]
    /\ UNCHANGED <<scrapers, phase, kind, callData, targets, outcomes, settleOrder,
                   invoked, enabledAtCall, result, error>>

\* The handler up to its await: validation, the enabled filter, the
\* no-scrapers check and the start of one search per target.
SearchAllStart(k, data) ==
    /\ phase = "idle"
    /\ kind' = k
    /\ callData' = data
    /\ settleOrder' = <<>>
    /\ result' = <<>>
    /\ enabledAtCall' = {s \in ScraperIds : IndexOf(scrapers, s) # 0 /\ enabled[s]}
    /\ IF ~ValidInput(k, data)
       THEN /\ phase' = "threw"
            /\ error' = "ValidationFailed"
            /\ targets' = <<>>
            /\ outcomes' = <<>>
            /\ invoked' = [s \in ScraperIds |-> 0]
       ELSE LET ts == EnabledScrapers IN
            IF Len(ts) = 0
            THEN /\ phase' = "threw"
                 /\ error' = "NoScrapersAvailable"
                 /\ targets' = <<>>
                 /\ outcomes' = <<>>
                 /\ invoked' = [s \in ScraperIds |-> 0]
            ELSE /\ phase' = "awaiting"
                 /\ error' = None
                 /\ targets' = ts
                 /\ outcomes' = [i \in DOMAIN ts |-> Pending]
                 /\ invoked' = [s \in ScraperIds |->
                                   Cardinality({i \in DOMAIN ts : ts[i] = s})]
    /\ UNCHANGED <<scrapers, enabled>>

\* One backend's search (or searchEpisode) promise fulfils with the parsed
\* page.
BackendFulfil(i, page) ==
    /\ phase = "awaiting"
    /\ i \in DOMAIN outcomes
    /\ outcomes[i].status = "pending"
    /\ outcomes' = [outcomes EXCEPT ![i] = Fulfilled(ParseSearchResults(targets[i], page))]
    /\ settleOrder' = Append(settleOrder, i)
    /\ UNCHANGED <<scrapers, enabled, phase, kind, callData, targets, invoked,
                   enabledAtCall, result, error>>

\* One backend's promise rejects (network or HTTP failure, timeout).
BackendReject(i) ==
    /\ phase = "awaiting"
    /\ i \in DOMAIN outcomes
    /\ outcomes[i].status = "pending"
    /\ outcomes' = [outcomes EXCEPT ![i] = Rejected]
    /\ settleOrder' = Append(settleOrder, i)
    /\ UNCHANGED <<scrapers, enabled, phase, kind, callData, targets, invoked,
                   enabledAtCall, result, error>>

\* The handler after its await: `results` are the settled outcomes,
\* `allResults` the values of the fulfilled ones, and the sorted list is
\* returned.
SearchAllReturn ==
    /\ phase = "awaiting"
    /\ CanResume(outcomes)
    /\ phase' = "returned"
    /\ \E results \in {AllSettled(outcomes, settleOrder)} :
         \E allResults \in {FulfilledValues(results)} :
            result' = SortBySeeders(allResults)
    /\ UNCHANGED <<scrapers, enabled, kind, callData, targets, outcomes, settleOrder,
                   invoked, enabledAtCall, error>>

\* The reply (the list or the error) reaches the renderer and the handler's
\* locals are gone.
SearchAllDeliver ==
    /\ phase \in {"returned", "threw"}
    /\ phase' = "idle"
    /\ targets' = <<>>
    /\ outcomes' = <<>>
    /\ settleOrder' = <<>>
    /\ invoked' = [s \in ScraperIds |-> 0]
    /\ enabledAtCall' = {}
    /\ result' = <<>>
    /\ error' = None
    /\ callData' = NoData
    /\ UNCHANGED <<scrapers, enabled, kind>>

SearchNext ==
    \/ \E s \in ExtraScrapers : RegisterProvider(s)
    \/ \E s \in ScraperIds : InitializeScraper(s)
    \/ \E s \in ScraperIds : ShutdownScraper(s)
    \/ \E data \in SearchInputs \cup {NoData} : SearchAllStart("search", data)
    \/ \E data \in EpisodeInputs \cup {NoData} : SearchAllStart("episode", data)
    \/ \E i \in 1..Cardinality(ScraperIds), page \in Pages : BackendFulfil(i, page)
    \/ \E i \in 1..Cardinality(ScraperIds) : BackendReject(i)
    \/ SearchAllReturn
    \/ SearchAllDeliver

(***************************************************************************)
(* Part II: the Real-Debrid acceleration backend                           *)
(***************************************************************************)
VARIABLES
    apiKey,        \* RealDebridProvider.apiKey
    account,       \* RealDebridProvider.account
    debridEnabled, \* BaseProvider.enabled of the backend
    authHeader,    \* client.defaults.headers.common['Authorization']
    auth,          \* the authenticate calls: position, credentials, token sent
    op,            \* the other operation in progress on the backend
    lastWriter,    \* the authenticate call that wrote apiKey last (0: none)
    overlap,       \* the authenticate calls that ran while another was in flight
    sessionAuthed, \* an authenticate has succeeded since construction/shutdown
    failedSince    \* an authenticate failed and none has been started since

debridVars == <<apiKey, account, debridEnabled, authHeader, auth, op,
                lastWriter, overlap, sessionAuthed, failedSince>>

(***************************************************************************)
(* Part III: transfers                                                     *)
(***************************************************************************)
VARIABLES
    remote,        \* the torrent the remote account holds, if any
    remoteIds,     \* the torrent ids the remote has handed out so far
    xfer,          \* the transfer operation in progress on the backend
    lastSeen,      \* the Transfer the caller obtained last: its id and status
    deleted        \* the ids whose delete request the remote has accepted

transferVars == <<remote, remoteIds, xfer, lastSeen, deleted>>

(***************************************************************************)
(* Part IV: one search backend                                             *)
(***************************************************************************)
VARIABLES
    scrape         \* the search or searchEpisode call in progress on a backend

scrapeVars == <<scrape>>

(***************************************************************************)
(* Part V: registry and application lifecycle                              *)
(***************************************************************************)
VARIABLES
    registry,       \* ProviderManager: providers, scrapers, debridProviders
    lastRegistered, \* per id, the instance passed to the last registerProvider
    backendEnabled, \* the enabled flag of every backend instance
    lastLifecycle,  \* per instance, its lifecycle call that completed last
    initAll,        \* the initializeAll call: phase, providers called, failures
    shutAll,        \* the shutdownAll call
    app,            \* main process: next start step, quit step, handlers, db
    served,         \* the request the handlers served last
    sinceShutdown   \* "yes": shutdownAll completed and no initializeAll or
                    \* authenticate began since it was called

appVars == <<registry, lastRegistered, backendEnabled, lastLifecycle, initAll,
             shutAll, app, served, sinceShutdown>>

(***************************************************************************)
(* Part VI: request channels, account store, search-and-play flow          *)
(***************************************************************************)
VARIABLES
    ipc,           \* the request the renderer invoked last and its answer
    store,         \* provider_configs ids, provider_accounts rows, open
    authIpc,       \* the 'debrid:authenticate' request in progress
    flow           \* searchAndPlay: its step, status, channels invoked

ipcVars == <<ipc, store, authIpc, flow>>

extraVars == <<scrapeVars, appVars, ipcVars>>

vars == <<searchVars, debridVars, transferVars, extraVars>>

DebridId == "real-debrid"
ValidKeys == {"k1", "k2"}
\* credentials.apiKey: absent, accepted by the remote, or not accepted
ApiKeys == {None, "bad"} \cup ValidKeys
AuthCalls == 1..MaxAuthCalls
OpNames == {"checkStatus", "addMagnet", "getTransferStatus", "getStreamUrl",
            "deleteTransfer"}

\* JavaScript `!value` for an optional string
Falsy(v) == v \in {None, ""}

\* this.account = undefined
NoAccount == [id |-> None, providerId |-> None]

\* the account built from the remote's /user answer for a token
AccountOf(token) == [id |-> token, providerId |-> DebridId]

KeyAtAuthStartKeepsExisting(prev, k) == IF prev = None THEN k ELSE prev

\* authenticate, line 83: this.apiKey = credentials.apiKey
KeyAtAuthStart(prev, k) == k

KeyAfterAuthFailureKept(prev) == prev

\* authenticate, line 103: this.apiKey = undefined
KeyAfterAuthFailure(prev) == None

\* the guard `if (!this.apiKey) throw new Error('Not authenticated ...')`
NotAuthenticated(key) == Falsy(key)

\* the first remote request of each operation
FirstRequest(name) ==
    CASE name = "checkStatus" -> "GET /user"
      [] name = "addMagnet" -> "POST /torrents/addMagnet"
      [] name = "getTransferStatus" -> "GET /torrents/info"
      [] name = "getStreamUrl" -> "GET /torrents/info"
      [] name = "deleteTransfer" -> "DELETE /torrents/delete"

IdleOp == [name |-> None, phase |-> "idle", req |-> None, outcome |-> None,
           requests |-> 0, token |-> None, unverified |-> FALSE,
           afterAuthFail |-> FALSE]

AwaitingAuth == {c \in AuthCalls : auth[c].phase = "awaiting"}
UsedAuth == {c \in AuthCalls : auth[c].phase # "unused"}

DebridInit ==
    /\ apiKey = None
    /\ account = NoAccount
    /\ debridEnabled = FALSE
    /\ authHeader = None
    /\ auth = [c \in AuthCalls |-> [phase |-> "unused", key |-> None]]
    /\ op = IdleOp
    /\ lastWriter = 0
    /\ overlap = {}
    /\ sessionAuthed = FALSE
    /\ failedSince = FALSE

\* RealDebridProvider.initialize
InitializeDebrid ==
    /\ debridEnabled' = TRUE
    /\ UNCHANGED <<apiKey, account, authHeader, auth, op, lastWriter, overlap,
                   sessionAuthed, failedSince>>

\* RealDebridProvider.shutdown
ShutdownDebrid ==
    /\ debridEnabled' = FALSE
    /\ apiKey' = None
    /\ account' = NoAccount
    /\ lastWriter' = 0
    /\ sessionAuthed' = FALSE
    /\ UNCHANGED <<authHeader, auth, op, overlap, failedSince>>

\* authenticate up to its await: the key check, the token and header writes
\* and the GET /user request; a missing key goes straight to the catch.
AuthStart(c, k) ==
    /\ c = Cardinality(UsedAuth) + 1
    /\ c \in AuthCalls
    /\ overlap' = IF AwaitingAuth # {} THEN overlap \cup AwaitingAuth \cup {c}
                  ELSE overlap
    /\ lastWriter' = c
    /\ IF Falsy(k)
       THEN /\ apiKey' = KeyAfterAuthFailure(apiKey)
            /\ auth' = [auth EXCEPT ![c] = [phase |-> "failed", key |-> k]]
            /\ failedSince' = TRUE
            /\ UNCHANGED authHeader
       ELSE /\ apiKey' = KeyAtAuthStart(apiKey, k)
            /\ authHeader' = KeyAtAuthStart(apiKey, k)
            /\ auth' = [auth EXCEPT ![c] = [phase |-> "awaiting", key |-> k]]
            /\ failedSince' = FALSE
    /\ UNCHANGED <<account, debridEnabled, op, sessionAuthed>>

\* the remote answers GET /user for a token it accepts: the account is set
\* and returned
AuthResolve(c) ==
    /\ auth[c].phase = "awaiting"
    /\ auth[c].key \in ValidKeys
    /\ account' = AccountOf(auth[c].key)
    /\ auth' = [auth EXCEPT ![c].phase = "ok"]
    /\ sessionAuthed' = TRUE
    /\ UNCHANGED <<apiKey, debridEnabled, authHeader, op, lastWriter, overlap,
                   failedSince>>

\* GET /user fails (token refused, network failure, timeout): the catch
AuthReject(c) ==
    /\ auth[c].phase = "awaiting"
    /\ apiKey' = KeyAfterAuthFailure(apiKey)
    /\ auth' = [auth EXCEPT ![c].phase = "failed"]
    /\ lastWriter' = c
    /\ failedSince' = TRUE
    /\ UNCHANGED <<account, debridEnabled, authHeader, op, overlap, sessionAuthed>>

\* checkStatus, addMagnet, getTransferStatus, getStreamUrl, deleteTransfer up
\* to the first await: the guard, then the first remote request.
OpStart(name) ==
    /\ op.phase = "idle"
    /\ IF NotAuthenticated(apiKey)
       THEN op' = [IdleOp EXCEPT !.name = name, !.phase = "done",
                                 !.outcome = "NotAuthenticated",
                                 !.unverified = ~sessionAuthed,
                                 !.afterAuthFail = failedSince]
       ELSE op' = [IdleOp EXCEPT !.name = name, !.phase = "awaiting",
                                 !.req = FirstRequest(name), !.requests = 1,
                                 !.token = authHeader,
                                 !.unverified = ~sessionAuthed,
                                 !.afterAuthFail = failedSince]
    /\ UNCHANGED <<apiKey, account, debridEnabled, authHeader, auth, lastWriter,
                   overlap, sessionAuthed, failedSince>>

\* the pending remote request fails: handleError rethrows the remote error
OpRequestFails ==
    /\ op.phase = "awaiting"
    /\ op' = [op EXCEPT !.phase = "done", !.req = None, !.outcome = "RemoteError"]
    /\ UNCHANGED <<apiKey, account, debridEnabled, authHeader, auth, lastWriter,
                   overlap, sessionAuthed, failedSince>>

\* the pending remote request succeeds and the operation goes on to its
\* next request, returns or throws, as the answer decides:
\*   addMagnet: info after the magnet was added; selectFiles when the
\*   torrent lists files; getStreamUrl: unrestrict when the torrent is
\*   downloaded and has links.
OpRequestSucceeds(hasFiles, downloaded, hasLinks) ==
    /\ op.phase = "awaiting"
    /\ op.token \in ValidKeys
    /\ LET next(r) == [op EXCEPT !.req = r, !.token = authHeader,
                                 !.requests = op.requests + 1]
           done(o) == [op EXCEPT !.phase = "done", !.req = None, !.outcome = o]
       IN  op' =
            CASE op.req = "POST /torrents/addMagnet" -> next("GET /torrents/info")
              [] op.req = "GET /torrents/info" /\ op.name = "addMagnet" ->
                    IF hasFiles THEN next("POST /torrents/selectFiles")
                    ELSE done("ok")
              [] op.req = "GET /torrents/info" /\ op.name = "getStreamUrl" ->
                    IF ~downloaded THEN done("NotReady")
                    ELSE IF ~hasLinks THEN done("NoLinks")
                    ELSE next("POST /unrestrict/link")
              [] OTHER -> done("ok")
    /\ UNCHANGED <<apiKey, account, debridEnabled, authHeader, auth, lastWriter,
                   overlap, sessionAuthed, failedSince>>

\* the caller receives the operation's result or error
OpDeliver ==
    /\ op.phase = "done"
    /\ op' = IdleOp
    /\ UNCHANGED <<apiKey, account, debridEnabled, authHeader, auth, lastWriter,
                   overlap, sessionAuthed, failedSince>>

DebridNext ==
    \/ InitializeDebrid
    \/ ShutdownDebrid
    \/ \E c \in AuthCalls, k \in ApiKeys : AuthStart(c, k)
    \/ \E c \in AuthCalls : AuthResolve(c)
    \/ \E c \in AuthCalls : AuthReject(c)
    \/ \E name \in OpNames : OpStart(name)
    \/ OpRequestFails
    \/ \E hasFiles, downloaded, hasLinks \in BOOLEAN :
          OpRequestSucceeds(hasFiles, downloaded, hasLinks)
    \/ OpDeliver

(***************************************************************************)
(* Part III definitions                                                    *)
(***************************************************************************)
\* The statuses the remote service reports for a torrent, in the order a
\* torrent moves through them.  "compressing" is a status of the remote
\* service that statusMap does not list.
RemoteProgressOrder ==
    <<"magnet_conversion", "waiting_files_selection", "queued", "downloading",
      "compressing", "downloaded">>

RemoteErrorStatuses == {"magnet_error", "error", "virus", "dead"}

RemoteStatuses ==
    {RemoteProgressOrder[i] : i \in DOMAIN RemoteProgressOrder}
        \cup RemoteErrorStatuses

RemoteRank(s) == IndexOf(RemoteProgressOrder, s)

\* statusMap of mapTorrentToTransfer.
statusMap ==
    [s \in {"magnet_error", "magnet_conversion", "waiting_files_selection",
            "queued", "downloading", "downloaded", "error", "virus", "dead"} |->
        CASE s = "magnet_error"             -> "error"
          [] s = "magnet_conversion"        -> "queued"
          [] s = "waiting_files_selection"  -> "queued"
          [] s = "queued"                   -> "queued"
          [] s = "downloading"              -> "downloading"
          [] s = "downloaded"               -> "ready"
          [] s = "error"                    -> "error"
          [] s = "virus"                    -> "error"
          [] s = "dead"                     -> "error"]

\* statusMap[torrent.status] || 'queued'
MapStatus(s) == IF s \in DOMAIN statusMap THEN statusMap[s] ELSE "queued"

\* File paths: a stem and the text after the last dot.
Extensions == {"mp4", "MKV", "nfo"}

Paths == [stem : {"f"}, ext : Extensions]

\* The /i flag of the pattern: the extension is compared in lower case.
ToLowerCase(e) ==
    CASE e = "MKV" -> "mkv"
      [] e = "MP4" -> "mp4"
      [] OTHER     -> e

VideoExtensions == {"mp4", "mkv", "avi", "mov", "wmv", "flv", "webm"}

\* /\.(mp4|mkv|avi|mov|wmv|flv|webm)$/i.test(f.path)
IsVideo(path) == ToLowerCase(path.ext) \in VideoExtensions

\* The file lists and link lists of a remote torrent.  The remote numbers the
\* files of a torrent from 1; links are named by their position in the list.
FileLists ==
    UNION {{[i \in 1..n |-> [id |-> i, path |-> g[i][1], bytes |-> g[i][2]]] :
              g \in [1..n -> Paths \X (1..MaxBytes)]} : n \in 0..MaxFiles}

LinkLists == {[i \in 1..n |-> i] : n \in 0..MaxFiles}

Contents == [files : FileLists, links : LinkLists]

\* A torrent with one plain content per number of files.
PlainContents ==
    {[files |-> [i \in 1..n |-> [id |-> i,
                                  path |-> [stem |-> "f", ext |-> "mp4"],
                                  bytes |-> 1]],
      links |-> [i \in 1..n |-> i]] : n \in 0..MaxFiles}

TransferIds == {"T1", "T2"}

NoTorrent == [id |-> None, status |-> None, files |-> <<>>, links |-> <<>>]

Torrent(id, status, content) ==
    [id |-> id, status |-> status, files |-> content.files,
     links |-> content.links]

NoTransfer == [id |-> None, status |-> None, files |-> <<>>, error |-> None]

\* mapTorrentToTransfer: the error field of the Transfer is never assigned.
mapTorrentToTransfer(torrent) ==
    [id     |-> torrent.id,
     status |-> MapStatus(torrent.status),
     files  |-> [i \in 1..Len(torrent.files) |->
                    [id   |-> ToString(torrent.files[i].id),
                     name |-> torrent.files[i].path,
                     size |-> torrent.files[i].bytes]],
     error  |-> None]

\* The fileId argument of getStreamUrl: absent, or a decimal string.
FileIdArgs == {None} \cup {ToString(n) : n \in 1..(MaxFiles + 1)}

NaN == -1

ParseInt(s) ==
    IF \E n \in 0..(MaxFiles + 1) : ToString(n) = s
    THEN CHOOSE n \in 0..(MaxFiles + 1) : ToString(n) = s
    ELSE NaN

NotFound == 0

\* torrent.files.findIndex(f => f.id === n), positions counted from 1.
FindIndex(files, n) ==
    IF \E i \in 1..Len(files) : files[i].id = n
    THEN CHOOSE i \in 1..Len(files) :
            /\ files[i].id = n
            /\ \A j \in 1..(i - 1) : files[j].id # n
    ELSE NotFound

\* videoFiles.reduce((prev, current) => current.bytes > prev.bytes ? current
\* : prev) and torrent.files.indexOf(largestVideo): the first of the largest
\* video files, as a position in torrent.files.
LargestVideoIndex(files) ==
    CHOOSE i \in 1..Len(files) :
        /\ IsVideo(files[i].path)
        /\ \A j \in 1..Len(files) :
              IsVideo(files[j].path) =>
                  /\ files[j].bytes <= files[i].bytes
                  /\ (j < i => files[j].bytes < files[i].bytes)

HasVideo(files) == \E i \in 1..Len(files) : IsVideo(files[i].path)

\* The link getStreamUrl passes to /unrestrict/link (lines 197-218).
LinkToUnrestrict(torrent, fileId) ==
    IF fileId # None
    THEN LET fileIndex == FindIndex(torrent.files, ParseInt(fileId))
         IN  IF fileIndex # NotFound /\ fileIndex <= Len(torrent.links)
             THEN torrent.links[fileIndex]
             ELSE torrent.links[1]
    ELSE IF Len(torrent.files) > 1 /\ HasVideo(torrent.files)
         THEN LET videoIndex == LargestVideoIndex(torrent.files)
              IN  IF videoIndex <= Len(torrent.links)
                  THEN torrent.links[videoIndex]
                  ELSE torrent.links[1]
         ELSE torrent.links[1]

\* Magnet URIs, as the pieces a parser splits them into: the scheme, and for
\* a well-formed magnet the exact-topic parameter and the info hash.
MagnetUris ==
    {<<"http:", "//host/file.torrent">>,
     <<"magnet:", "?dn=name">>,
     <<"magnet:", "?xt=urn:btih:", "abc">>}

StartsWith(uri, prefix) == Len(uri) > 0 /\ uri[1] = prefix

WellFormedMagnet(uri) ==
    /\ Len(uri) = 3
    /\ uri[1] = "magnet:"
    /\ uri[2] = "?xt=urn:btih:"

\* MagnetResolveSchema: magnetUri is a string that starts with 'magnet:'.
MagnetResolveSchema(uri) == StartsWith(uri, "magnet:")

ValidationFailed == "Validation failed"
NotAuthenticatedError == "Not authenticated with Real-Debrid"
NotReadyError == "Torrent not ready yet"
NoLinksError == "No links available for this torrent"
RemoteError == "remote error"

IdleXfer ==
    [name |-> None, step |-> "idle", uri |-> <<>>, id |-> None,
     fileId |-> None, snap |-> NoTorrent, selected |-> <<>>, link |-> 0,
     requests |-> 0, infoReads |-> 0, outcome |-> None, error |-> None,
     value |-> NoTransfer, url |-> 0, rejected |-> FALSE, created |-> None,
     gone |-> FALSE]

handleErrorSwallowed(x, err) ==
    [x EXCEPT !.step = "done", !.outcome = "returned"]

\* catch (error) { return this.handleError(error, ...) }: handleError logs
\* and rethrows, so the operation fails with the error it caught.
handleError(x, err) ==
    [x EXCEPT !.step = "done", !.outcome = "threw", !.error = err]

IsReadyWhateverStatus(torrent) == TRUE

\* torrent.status !== 'downloaded' throws (lines 189-191)
IsReady(torrent) == torrent.status = "downloaded"

SelectedFileIdsFirstOnly(files) == <<files[1].id>>

\* torrent.files.map(f => f.id).join(',')
SelectedFileIds(files) == [i \in 1..Len(files) |-> files[i].id]

NextStepAfterInfoPolling(torrent) ==
    IF torrent.status # "downloaded" THEN "info"
    ELSE IF Len(torrent.files) > 0 THEN "select" ELSE "done"

\* addMagnet after the info read (lines 146-161): one selectFiles request
\* when the torrent lists files, then the return.
NextStepAfterInfo(torrent) ==
    IF Len(torrent.files) > 0 THEN "select" ELSE "done"

TransferInit ==
    /\ remote = NoTorrent
    /\ remoteIds = {}
    /\ xfer = IdleXfer
    /\ lastSeen = [id |-> None, status |-> None]
    /\ deleted = {}

\* 'debrid:resolve-magnet': validateInput(MagnetResolveSchema, data), then
\* provider.addMagnet(validated.magnetUri) up to its first request.
ResolveMagnet(uri) ==
    /\ xfer.step = "idle"
    /\ LET x == [IdleXfer EXCEPT !.name = "addMagnet", !.uri = uri]
       IN  xfer' =
             IF ~MagnetResolveSchema(uri)
             THEN [x EXCEPT !.step = "done", !.outcome = "threw",
                            !.error = ValidationFailed]
             ELSE IF NotAuthenticated(apiKey)
             THEN handleError(x, NotAuthenticatedError)
             ELSE [x EXCEPT !.step = "add", !.requests = 1]
    /\ UNCHANGED <<remote, remoteIds, lastSeen, deleted>>

\* getTransferStatus, getStreamUrl and deleteTransfer up to their first
\* request.
TransferOpStart(name, id, fileId) ==
    /\ xfer.step = "idle"
    /\ name \in {"getTransferStatus", "getStreamUrl", "deleteTransfer"}
    /\ name # "getStreamUrl" => fileId = None
    /\ LET x == [IdleXfer EXCEPT !.name = name, !.id = id, !.fileId = fileId,
                                 !.gone = id \in deleted]
       IN  xfer' =
             IF NotAuthenticated(apiKey)
             THEN handleError(x, NotAuthenticatedError)
             ELSE [x EXCEPT !.step = IF name = "deleteTransfer" THEN "delete"
                                     ELSE "info",
                            !.requests = 1,
                            !.infoReads = IF name = "deleteTransfer" THEN 0
                                          ELSE 1]
    /\ UNCHANGED <<remote, remoteIds, lastSeen, deleted>>

\* The remote accepts POST /torrents/addMagnet: it creates a torrent under a
\* fresh id.  A magnet it cannot convert becomes a torrent in magnet_error.
\* addMagnet then waits 2000 ms and requests the torrent's info.
AddMagnetCreated(id, content, status) ==
    /\ xfer.step = "add"
    /\ remote = NoTorrent
    /\ id \in TransferIds \ remoteIds
    /\ status \in IF WellFormedMagnet(xfer.uri)
                  THEN {"magnet_conversion", "waiting_files_selection"}
                  ELSE {"magnet_error"}
    /\ remote' = Torrent(id, status, content)
    /\ remoteIds' = remoteIds \cup {id}
    /\ xfer' = [xfer EXCEPT !.step = "info", !.id = id, !.created = id,
                            !.requests = @ + 1, !.infoReads = @ + 1]
    /\ UNCHANGED <<lastSeen, deleted>>

\* The remote answers a request with an error status, or the request times
\* out: axios rejects and the catch block of the operation runs.
RequestFails ==
    /\ xfer.step \in {"add", "info", "select", "unrestrict", "delete"}
    /\ xfer' = handleError([xfer EXCEPT !.rejected = TRUE], RemoteError)
    /\ UNCHANGED <<remote, remoteIds, lastSeen, deleted>>

\* GET /torrents/info answers addMagnet.
AddMagnetInfo ==
    /\ xfer.name = "addMagnet"
    /\ xfer.step = "info"
    /\ remote.id = xfer.id
    /\ LET torrent == remote
           next == NextStepAfterInfo(torrent)
       IN  xfer' =
             IF next = "done"
             THEN [xfer EXCEPT !.step = "done", !.outcome = "returned",
                               !.snap = torrent,
                               !.value = mapTorrentToTransfer(torrent)]
             ELSE [xfer EXCEPT !.step = next, !.snap = torrent,
                               !.requests = @ + 1,
                               !.infoReads = IF next = "info" THEN @ + 1 ELSE @,
                               !.selected = IF next = "select"
                                            THEN SelectedFileIds(torrent.files)
                                            ELSE @]
    /\ UNCHANGED <<remote, remoteIds, lastSeen, deleted>>

\* POST /torrents/selectFiles is answered: addMagnet returns the Transfer
\* mapped from the info it read before.
AddMagnetSelected ==
    /\ xfer.step = "select"
    /\ remote.id = xfer.id
    /\ xfer' = [xfer EXCEPT !.step = "done", !.outcome = "returned",
                            !.value = mapTorrentToTransfer(xfer.snap)]
    /\ UNCHANGED <<remote, remoteIds, lastSeen, deleted>>

\* GET /torrents/info answers getTransferStatus.
StatusInfo ==
    /\ xfer.name = "getTransferStatus"
    /\ xfer.step = "info"
    /\ remote.id = xfer.id
    /\ xfer' = [xfer EXCEPT !.step = "done", !.outcome = "returned",
                            !.snap = remote,
                            !.value = mapTorrentToTransfer(remote)]
    /\ UNCHANGED <<remote, remoteIds, lastSeen, deleted>>

\* GET /torrents/info answers getStreamUrl (lines 187-225).
StreamInfo ==
    /\ xfer.name = "getStreamUrl"
    /\ xfer.step = "info"
    /\ remote.id = xfer.id
    /\ LET torrent == remote
           x == [xfer EXCEPT !.snap = torrent]
       IN  xfer' =
             IF ~IsReady(torrent)
             THEN handleError(x, NotReadyError)
             ELSE IF Len(torrent.links) = 0
             THEN handleError(x, NoLinksError)
             ELSE [x EXCEPT !.step = "unrestrict", !.requests = @ + 1,
                            !.link = LinkToUnrestrict(torrent, xfer.fileId)]
    /\ UNCHANGED <<remote, remoteIds, lastSeen, deleted>>

\* POST /unrestrict/link is answered with the download URL of the link.
Unrestricted ==
    /\ xfer.step = "unrestrict"
    /\ xfer' = [xfer EXCEPT !.step = "done", !.outcome = "returned",
                            !.url = xfer.link]
    /\ UNCHANGED <<remote, remoteIds, lastSeen, deleted>>

\* DELETE /torrents/delete is accepted: the remote holds the torrent and
\* removes it.
DeleteAccepted ==
    /\ xfer.step = "delete"
    /\ remote.id = xfer.id
    /\ remote' = NoTorrent
    /\ deleted' = deleted \cup {xfer.id}
    /\ xfer' = [xfer EXCEPT !.step = "done", !.outcome = "returned"]
    /\ UNCHANGED <<remoteIds, lastSeen>>

\* The caller receives the outcome of the operation.
TransferDeliver ==
    /\ xfer.step = "done"
    /\ lastSeen' = IF xfer.value # NoTransfer
                   THEN [id |-> xfer.value.id, status |-> xfer.value.status]
                   ELSE lastSeen
    /\ xfer' = IdleXfer
    /\ UNCHANGED <<remote, remoteIds, deleted>>

\* The remote works on the torrent: its status moves forward in
\* RemoteProgressOrder, or to one of the error statuses.
RemoteProgress(status) ==
    /\ remote # NoTorrent
    /\ remote.status \notin RemoteErrorStatuses \cup {"downloaded"}
    /\ \/ status \in RemoteErrorStatuses
       \/ RemoteRank(status) > RemoteRank(remote.status)
    /\ remote' = [remote EXCEPT !.status = status]
    /\ UNCHANGED <<remoteIds, xfer, lastSeen, deleted>>

\* One successful authenticate of the backend.
Login ==
    \/ AuthStart(1, "k1")
    \/ AuthResolve(1)

TransferNext ==
    \/ Login /\ UNCHANGED transferVars
    \/ /\ UNCHANGED debridVars
       /\ \/ \E uri \in MagnetUris : ResolveMagnet(uri)
          \/ \E id \in TransferIds :
                \E name \in {"getTransferStatus", "deleteTransfer"} :
                    TransferOpStart(name, id, None)
          \/ \E id \in TransferIds, content \in PlainContents,
                status \in RemoteStatuses : AddMagnetCreated(id, content, status)
          \/ RequestFails
          \/ AddMagnetInfo
          \/ AddMagnetSelected
          \/ StatusInfo
          \/ DeleteAccepted
          \/ TransferDeliver
          \/ \E status \in RemoteStatuses : RemoteProgress(status)

StreamNext ==
    \/ Login /\ UNCHANGED transferVars
    \/ /\ UNCHANGED debridVars
       /\ \/ \E id \in TransferIds, fileId \in FileIdArgs :
                TransferOpStart("getStreamUrl", id, fileId)
          \/ RequestFails
          \/ StreamInfo
          \/ Unrestricted
          \/ TransferDeliver
          \/ \E status \in RemoteStatuses : RemoteProgress(status)

(***************************************************************************)
(* Part IV definitions                                                     *)
(***************************************************************************)
\* Text is a sequence of one-character strings.
SeriesNames == {<<"F", "o", "o">>, <<"A", " ", "B">>}

Numbers == 1..MaxNumber

\* String(n) for a natural number: its decimal digits.
RECURSIVE String(_)
String(n) ==
    IF n < 10 THEN <<ToString(n)>>
    ELSE Append(String(n \div 10), ToString(n % 10))

PadStartNone(s, targetLength, padString) == s

\* String.prototype.padStart with a one-character pad string.
PadStart(s, targetLength, padString) ==
    IF Len(s) >= targetLength THEN s
    ELSE [i \in 1..(targetLength - Len(s)) |-> padString] \o s

\* `${seriesName} S${String(season).padStart(2, '0')}E${...}` (line 51)
EpisodeQuery(seriesName, season, episode) ==
    seriesName \o <<" ", "S">> \o PadStart(String(season), 2, "0")
               \o <<"E">> \o PadStart(String(episode), 2, "0")

\* encodeURIComponent on the characters that occur: a space is escaped,
\* letters and digits are kept.
EncodeURIComponent(s) ==
    [i \in 1..Len(s) |-> IF s[i] = " " THEN "%20" ELSE s[i]]

\* `${this.baseUrl}/search/all/${searchQuery}/seeds/1/` (line 28)
SearchUrl(query) ==
    <<"https://www.limetorrents.lol", "/search/all/">>
        \o EncodeURIComponent(query) \o <<"/seeds/1/">>

\* The rows of '.table2 tbody tr' that have a title: the info hash in the
\* torrent link (none when the link has no hash) and the text of the
\* seeders cell.
\* extractInfoHashFromLink found no hash in the link.
NoHash == 0

SeederTexts == {"abc"} \cup {ToString(n) : n \in 0..MaxSeeders}

HtmlPages ==
    UNION {[1..n -> [hash : {NoHash} \cup Hashes, seedersText : SeederTexts]] :
              n \in 0..MaxRows}

\* parseInt(seedersText) || 0
ParseSeeders(text) ==
    IF \E n \in 0..MaxSeeders : ToString(n) = text
    THEN CHOOSE n \in 0..MaxSeeders : ToString(n) = text
    ELSE 0

\* The rows parseSearchResults keeps (`if (!infoHash) return`), with the
\* seeders parsed.
RECURSIVE KeptRows(_, _)
KeptRows(html, n) ==
    IF n = 0 THEN <<>>
    ELSE IF html[n].hash = NoHash THEN KeptRows(html, n - 1)
    ELSE Append(KeptRows(html, n - 1),
                [infoHash |-> html[n].hash,
                 seeders |-> ParseSeeders(html[n].seedersText)])

SortedResultsUnsorted(s, html) ==
    PushRows(s, KeptRows(html, Len(html)), Len(KeptRows(html, Len(html))))

\* parseSearchResults(response.data): the kept rows, sorted by seeders.
SortedResults(s, html) == ParseSearchResults(s, KeptRows(html, Len(html)))

IdleScrape ==
    [method |-> None, seriesName |-> <<>>, season |-> 0, episode |-> 0,
     query |-> <<>>, mediaType |-> None, url |-> <<>>, step |-> "idle",
     html |-> <<>>, outcome |-> None, value |-> <<>>]

ScrapeInit == scrape = IdleScrape

\* search(query, mediaType) up to its request.
ScraperSearch(query, mediaType) ==
    /\ scrape.step = "idle"
    /\ scrape' = [IdleScrape EXCEPT !.method = "search", !.query = query,
                                    !.mediaType = mediaType,
                                    !.url = SearchUrl(query),
                                    !.step = "request"]

\* searchEpisode(seriesName, season, episode): builds the query and returns
\* this.search(query, 'series').
ScraperSearchEpisode(seriesName, season, episode) ==
    /\ scrape.step = "idle"
    /\ LET query == EpisodeQuery(seriesName, season, episode)
       IN  scrape' = [IdleScrape EXCEPT !.method = "searchEpisode",
                                        !.seriesName = seriesName,
                                        !.season = season,
                                        !.episode = episode,
                                        !.query = query,
                                        !.mediaType = "series",
                                        !.url = SearchUrl(query),
                                        !.step = "request"]

\* The index answers with a result page, which search parses.
ScraperAnswered(html) ==
    /\ scrape.step = "request"
    /\ scrape' = [scrape EXCEPT !.step = "done", !.outcome = "returned",
                                !.html = html,
                                !.value = SortedResults(DefaultScraper, html)]

\* The request fails or times out: the catch of search rethrows.
ScraperFailed ==
    /\ scrape.step = "request"
    /\ scrape' = [scrape EXCEPT !.step = "done", !.outcome = "threw"]

\* The caller receives the outcome.
ScraperDeliver ==
    /\ scrape.step = "done"
    /\ scrape' = IdleScrape

ScrapeNext ==
    \/ \E mediaType \in {"movie", "series"} :
          ScraperSearch(<<"F", "o", "o">>, mediaType)
    \/ \E seriesName \in SeriesNames, season \in Numbers, episode \in Numbers :
          ScraperSearchEpisode(seriesName, season, episode)
    \/ \E html \in HtmlPages : ScraperAnswered(html)
    \/ ScraperFailed
    \/ ScraperDeliver

(***************************************************************************)
(* Part V definitions                                                      *)
(***************************************************************************)
\* Backend instances.  The two the registry constructs itself, and one that
\* other code registers under the id of the search backend with the type of
\* an acceleration backend.
LimeTorrents == [id |-> DefaultScraper, type |-> "scraper", instance |-> 1]
RealDebrid == [id |-> DebridId, type |-> "debrid", instance |-> 1]
OtherBackends == {[id |-> DefaultScraper, type |-> "debrid", instance |-> 2]}
Backends == {LimeTorrents, RealDebrid} \cup OtherBackends
BackendIds == {b.id : b \in Backends}

\* Map.get(id) of an id the map does not hold.
NoBackend == [id |-> None, type |-> None, instance |-> 0]

EmptyMap == [id \in BackendIds |-> NoBackend]

\* Array.from(map.values()), as a set.
Values(map) == {map[id] : id \in BackendIds} \ {NoBackend}

\* registerProvider (lines 30-40): providers.set, then the set on the map
\* of the provider's type; the map of the other type is not touched.
registerProvider(reg, provider) ==
    [providers |-> [reg.providers EXCEPT ![provider.id] = provider],
     scrapers |-> IF provider.type = "scraper"
                  THEN [reg.scrapers EXCEPT ![provider.id] = provider]
                  ELSE reg.scrapers,
     debridProviders |-> IF provider.type = "debrid"
                         THEN [reg.debridProviders EXCEPT ![provider.id] = provider]
                         ELSE reg.debridProviders]

\* registerDefaultProviders
DefaultRegistry ==
    registerProvider(
        registerProvider([providers |-> EmptyMap, scrapers |-> EmptyMap,
                          debridProviders |-> EmptyMap], LimeTorrents),
        RealDebrid)

LifecycleOutcomeUncaught(failed) ==
    IF failed = {} THEN "returned" ELSE "threw"

\* initializeAll / shutdownAll: every lifecycle call sits in its own
\* try/catch, so Promise.all resolves whatever failed.
LifecycleOutcome(failed) == "returned"

NextBootStepHandlersFirst(step) ==
    CASE step = "getDatabase"          -> "registerIpcHandlers"
      [] step = "registerIpcHandlers"  -> "initializeAll"
      [] step = "initializeAll"        -> "createWindow"
      [] step = "createWindow"         -> "running"

\* initializeApp, then createWindow (part_001 lines 60-77).
NextBootStep(step) ==
    CASE step = "getDatabase"          -> "initializeAll"
      [] step = "initializeAll"        -> "registerIpcHandlers"
      [] step = "registerIpcHandlers"  -> "createWindow"
      [] step = "createWindow"         -> "running"

IdleLifecycle ==
    [phase |-> "idle", snapshot |-> {}, failed |-> {},
     calls |-> [b \in Backends |-> 0]]

NoScrapersError == "No scrapers available"

AppInit ==
    /\ registry = DefaultRegistry
    /\ lastRegistered = DefaultRegistry.providers
    /\ backendEnabled = [b \in Backends |-> FALSE]
    /\ lastLifecycle = [b \in Backends |-> None]
    /\ initAll = IdleLifecycle
    /\ shutAll = IdleLifecycle
    /\ app = [next |-> "getDatabase", quit |-> "none", handlers |-> FALSE,
              window |-> FALSE, dbOpen |-> TRUE]
    /\ served = [kind |-> None, outcome |-> None, requests |-> 0,
                 initPending |-> FALSE, afterShutdown |-> FALSE]
    /\ sinceShutdown = "no"

\* providerManager.registerProvider(provider), called by other code.
Register(provider) ==
    /\ registry' = registerProvider(registry, provider)
    /\ lastRegistered' = [lastRegistered EXCEPT ![provider.id] = provider]
    /\ UNCHANGED <<backendEnabled, lastLifecycle, initAll, shutAll, app,
                   served, sinceShutdown, debridVars>>

\* DatabaseManager.getInstance() in initializeApp.
GetDatabase ==
    /\ app.next = "getDatabase"
    /\ app' = [app EXCEPT !.next = NextBootStep("getDatabase")]
    /\ UNCHANGED <<registry, lastRegistered, backendEnabled, lastLifecycle,
                   initAll, shutAll, served, sinceShutdown, debridVars>>

\* initializeAll up to `await Promise.all`: initialize is called on every
\* value of providers.  The initialize of the two default backends sets
\* enabled and cannot fail; that of another backend may throw, and then
\* leaves its flag as it was.
InitializeAllStart(failing) ==
    /\ app.next = "initializeAll"
    /\ initAll.phase = "idle"
    /\ failing \subseteq Values(registry.providers) \cap OtherBackends
    /\ LET snapshot == Values(registry.providers)
       IN  /\ initAll' = [phase |-> "awaiting", snapshot |-> snapshot,
                          failed |-> failing,
                          calls |-> [b \in Backends |->
                                        IF b \in snapshot THEN 1 ELSE 0]]
           /\ backendEnabled' = [b \in Backends |->
                                    IF b \in snapshot \ failing THEN TRUE
                                    ELSE backendEnabled[b]]
           /\ lastLifecycle' = [b \in Backends |->
                                   IF b \in snapshot \ failing THEN "initialize"
                                   ELSE lastLifecycle[b]]
           /\ IF RealDebrid \in snapshot THEN InitializeDebrid
              ELSE UNCHANGED debridVars
    /\ sinceShutdown' = "no"
    /\ UNCHANGED <<registry, lastRegistered, shutAll, app, served>>

\* Promise.all(promises) settles and initializeApp goes on; if initializeAll
\* rejected, the catch of whenReady quits.
InitializeAllReturn ==
    /\ initAll.phase = "awaiting"
    /\ LET outcome == LifecycleOutcome(initAll.failed)
       IN  /\ initAll' = [initAll EXCEPT !.phase = outcome]
           /\ app' = [app EXCEPT !.next = IF outcome = "returned"
                                          THEN NextBootStep("initializeAll")
                                          ELSE "failed"]
    /\ UNCHANGED <<registry, lastRegistered, backendEnabled, lastLifecycle,
                   shutAll, served, sinceShutdown, debridVars>>

\* registerIpcHandlers()
RegisterIpcHandlers ==
    /\ app.next = "registerIpcHandlers"
    /\ app' = [app EXCEPT !.handlers = TRUE,
                          !.next = NextBootStep("registerIpcHandlers")]
    /\ UNCHANGED <<registry, lastRegistered, backendEnabled, lastLifecycle,
                   initAll, shutAll, served, sinceShutdown, debridVars>>

\* createWindow(): the renderer exists and can send requests.
CreateWindow ==
    /\ app.next = "createWindow"
    /\ app' = [app EXCEPT !.window = TRUE,
                          !.next = NextBootStep("createWindow")]
    /\ UNCHANGED <<registry, lastRegistered, backendEnabled, lastLifecycle,
                   initAll, shutAll, served, sinceShutdown, debridVars>>

\* 'before-quit': shutdownAll up to `await Promise.all`.
ShutdownAllStart(failing) ==
    /\ app.quit = "none"
    /\ failing \subseteq Values(registry.providers) \cap OtherBackends
    /\ LET snapshot == Values(registry.providers)
       IN  /\ shutAll' = [phase |-> "awaiting", snapshot |-> snapshot,
                          failed |-> failing,
                          calls |-> [b \in Backends |->
                                        IF b \in snapshot THEN 1 ELSE 0]]
           /\ backendEnabled' = [b \in Backends |->
                                    IF b \in snapshot \ failing THEN FALSE
                                    ELSE backendEnabled[b]]
           /\ lastLifecycle' = [b \in Backends |->
                                   IF b \in snapshot \ failing THEN "shutdown"
                                   ELSE lastLifecycle[b]]
           /\ IF RealDebrid \in snapshot THEN ShutdownDebrid
              ELSE UNCHANGED debridVars
    /\ app' = [app EXCEPT !.quit = "awaitShutdownAll"]
    /\ sinceShutdown' = "pending"
    /\ UNCHANGED <<registry, lastRegistered, initAll, served>>

\* shutdownAll settles and the quit handler goes on to db.close().
ShutdownAllReturn ==
    /\ shutAll.phase = "awaiting"
    /\ LET outcome == LifecycleOutcome(shutAll.failed)
       IN  /\ shutAll' = [shutAll EXCEPT !.phase = outcome]
           /\ app' = [app EXCEPT !.quit = IF outcome = "returned" THEN "close"
                                          ELSE "failed"]
           /\ sinceShutdown' = IF outcome = "returned" /\ sinceShutdown = "pending"
                               THEN "yes" ELSE "no"
    /\ UNCHANGED <<registry, lastRegistered, backendEnabled, lastLifecycle,
                   initAll, served, debridVars>>

\* db.close()
CloseDatabase ==
    /\ app.quit = "close"
    /\ app' = [app EXCEPT !.dbOpen = FALSE, !.quit = "done"]
    /\ UNCHANGED <<registry, lastRegistered, backendEnabled, lastLifecycle,
                   initAll, shutAll, served, sinceShutdown, debridVars>>

Serving == app.handlers /\ app.window

\* 'torrent:search' with valid input, up to the fan-out: the enabled filter
\* over getAllScrapers() and the no-scrapers check.
ServeSearch ==
    /\ Serving
    /\ LET enabledScrapers == {b \in Values(registry.scrapers) : backendEnabled[b]}
       IN  served' = [kind |-> "search",
                      outcome |-> IF enabledScrapers = {} THEN NoScrapersError
                                  ELSE "fan-out",
                      requests |-> Cardinality(enabledScrapers),
                      initPending |-> initAll.phase = "awaiting",
                      afterShutdown |-> sinceShutdown = "yes"]
    /\ UNCHANGED <<registry, lastRegistered, backendEnabled, lastLifecycle,
                   initAll, shutAll, app, sinceShutdown, debridVars>>

\* A 'debrid:*' request other than authenticate for the default acceleration
\* backend: getDebridProvider(providerId), then the operation.
ServeDebrid(name) ==
    /\ Serving
    /\ registry.debridProviders[DebridId] = RealDebrid
    /\ OpStart(name)
    /\ served' = [kind |-> "debrid", outcome |-> op'.outcome,
                  requests |-> op'.requests,
                  initPending |-> initAll.phase = "awaiting",
                  afterShutdown |-> sinceShutdown = "yes"]
    /\ UNCHANGED <<registry, lastRegistered, backendEnabled, lastLifecycle,
                   initAll, shutAll, app, sinceShutdown>>

\* 'debrid:authenticate' for the default acceleration backend.
ServeAuthenticate ==
    /\ Serving
    /\ registry.debridProviders[DebridId] = RealDebrid
    /\ AuthStart(1, "k1")
    /\ sinceShutdown' = "no"
    /\ UNCHANGED <<registry, lastRegistered, backendEnabled, lastLifecycle,
                   initAll, shutAll, app, served>>

\* The steps of the backend that continue a request.
BackendStep ==
    /\ \/ AuthResolve(1)
       \/ OpRequestFails
       \/ \E hasFiles, downloaded, hasLinks \in BOOLEAN :
             OpRequestSucceeds(hasFiles, downloaded, hasLinks)
       \/ OpDeliver
    /\ UNCHANGED <<registry, lastRegistered, backendEnabled, lastLifecycle,
                   initAll, shutAll, app, served, sinceShutdown>>

AppNext ==
    \/ \E provider \in Backends : Register(provider)
    \/ GetDatabase
    \/ \E failing \in SUBSET OtherBackends : InitializeAllStart(failing)
    \/ InitializeAllReturn
    \/ RegisterIpcHandlers
    \/ CreateWindow
    \/ \E failing \in SUBSET OtherBackends : ShutdownAllStart(failing)
    \/ ShutdownAllReturn
    \/ CloseDatabase
    \/ ServeSearch
    \/ \E name \in OpNames : ServeDebrid(name)
    \/ ServeAuthenticate
    \/ BackendStep

(***************************************************************************)
(* Part VI definitions                                                     *)
(***************************************************************************)
\* preload: validChannels
validChannels ==
    {"media:search", "media:get", "media:recent", "torrent:search",
     "torrent:search-episode", "debrid:authenticate", "debrid:status",
     "debrid:resolve-magnet", "debrid:get-stream-url",
     "debrid:delete-transfer", "library:get-all", "library:add",
     "library:remove", "library:toggle-favorite", "progress:get",
     "progress:update", "progress:get-continue-watching", "settings:get",
     "settings:update", "provider:get-all", "provider:get",
     "provider:update", "provider:enable"}

\* registerIpcHandlers: the channels of the ipcMain.handle calls
HandledChannels ==
    {"torrent:search", "torrent:search-episode", "debrid:authenticate",
     "debrid:status", "debrid:resolve-magnet", "debrid:get-stream-url",
     "debrid:delete-transfer", "library:get-all",
     "progress:get-continue-watching", "progress:update", "settings:get",
     "settings:update", "provider:get-all"}

\* The handlers whose callback reads its `data` argument.
InputChannels ==
    HandledChannels \ {"library:get-all", "settings:get", "provider:get-all"}

\* The handlers that call validateInput(schema, data) first.
ValidatedChannels ==
    {"torrent:search", "torrent:search-episode", "debrid:authenticate",
     "debrid:resolve-magnet", "debrid:get-stream-url", "progress:update"}

\* The payload of a request: undefined; {}; an object whose providerId
\* (where the channel has one) names the default acceleration backend and
\* whose other fields have a wrong type or are absent; an object of the
\* channel's request type.
Payloads == {"missing", "empty", "badFields", "valid"}

\* The payload does not have the request type of the channel: every schema
\* and request type has a required field, except Partial<UserSettings>;
\* the request of 'debrid:status' has no field but providerId.
Malformed(channel, payload) ==
    CASE payload = "missing"   -> TRUE
      [] payload = "empty"     -> channel # "settings:update"
      [] payload = "badFields" -> channel # "debrid:status"
      [] OTHER                 -> FALSE

TypeErrorUndefined == "TypeError: Cannot read properties of undefined"
ProviderNotFound == "Debrid provider not found"
InvalidChannel == "Invalid IPC channel"
NoHandler == "No handler registered"

Answer(outcome, backendCalls, dbStatements) ==
    [outcome |-> outcome, backendCalls |-> backendCalls,
     dbStatements |-> dbStatements]

\* What a handler does with `data` once it is past its validateInput call,
\* or at once when it has none: the outcome, the number of calls of backend
\* methods and the number of statements run on the store.
HandlerBody(channel, payload) ==
    CASE channel \in {"torrent:search", "torrent:search-episode"} ->
            Answer("handled", 1, 0)
      [] channel = "debrid:authenticate" ->
            Answer("handled", 1, 1)
      [] channel \in {"debrid:resolve-magnet", "debrid:get-stream-url"} ->
            Answer("handled", 1, 0)
      [] channel \in {"debrid:status", "debrid:delete-transfer"} ->
            \* data.providerId, getDebridProvider, then the backend method
            \* with data.transferId as it comes
            IF payload = "missing" THEN Answer(TypeErrorUndefined, 0, 0)
            ELSE IF payload = "empty" THEN Answer(ProviderNotFound, 0, 0)
            ELSE Answer("handled", 1, 0)
      [] channel = "progress:get-continue-watching" ->
            \* db.prepare(...).all(data.limit)
            IF payload = "missing" THEN Answer(TypeErrorUndefined, 0, 0)
            ELSE Answer("handled", 0, 1)
      [] channel = "progress:update" ->
            Answer("handled", 0, 2)
      [] channel = "settings:update" ->
            \* Object.entries(data); UPDATE when there is an entry; SELECT
            IF payload = "missing" THEN Answer(TypeErrorUndefined, 0, 0)
            ELSE IF payload = "empty" THEN Answer("handled", 0, 1)
            ELSE Answer("handled", 0, 2)
      [] OTHER -> Answer("handled", 0, 1)

\* validateInput: schema.safeParse(data), throw when it did not succeed.
validateInput(channel, payload) == ~Malformed(channel, payload)

\* The handler of `channel` called with `payload`.
Handler(channel, payload) ==
    IF channel \in ValidatedChannels /\ ~validateInput(channel, payload)
    THEN Answer(ValidationFailed, 0, 0)
    ELSE HandlerBody(channel, payload)

\* api.invoke(channel, data) of the preload script (isValidChannel), then
\* ipcMain.
Dispatch(channel, payload) ==
    IF channel \notin validChannels THEN Answer(InvalidChannel, 0, 0)
    ELSE IF channel \notin HandledChannels THEN Answer(NoHandler, 0, 0)
    ELSE Handler(channel, payload)

NoRequest ==
    [channel |-> None, payload |-> None, outcome |-> None,
     backendCalls |-> 0, dbStatements |-> 0, afterFailedAuth |-> FALSE]

Request(channel, payload, answer, afterFailedAuth) ==
    [channel |-> channel, payload |-> payload, outcome |-> answer.outcome,
     backendCalls |-> answer.backendCalls,
     dbStatements |-> answer.dbStatements,
     afterFailedAuth |-> afterFailedAuth]

\* The store: the provider_id values of provider_configs, the rows of
\* provider_accounts, and whether the connection is open.
FreshStore == [configs |-> {}, accounts |-> {}, open |-> TRUE]

\* INSERT OR REPLACE INTO provider_accounts: the rows that conflict with the
\* new one on the primary key or on the unique provider_id are deleted.
InsertOrReplace(rows, row) ==
    {r \in rows : r.id # row.id /\ r.provider_id # row.provider_id} \cup {row}

AuthFailed == "authenticate failed"

IdleAuthIpc == [phase |-> "idle", outcome |-> None, call |-> 0]

IdleFlow ==
    [step |-> "search", status |-> None, invoked |-> {}, error |-> None,
     polls |-> 0, remoteReady |-> FALSE]

IpcInit ==
    /\ ipc = NoRequest
    /\ store = FreshStore
    /\ authIpc = IdleAuthIpc
    /\ flow = IdleFlow

\* The last 'debrid:authenticate' request has failed.
AuthRequestFailed == authIpc.phase = "done" /\ authIpc.outcome # "ok"

\* window.electron.invoke(channel, data) with any payload, for the channels
\* whose handler is modelled by its answer alone.
Invoke(channel, payload) ==
    /\ channel # "debrid:authenticate" \/ Malformed(channel, payload)
    /\ ipc' = Request(channel, payload, Dispatch(channel, payload), FALSE)
    /\ UNCHANGED <<store, authIpc, flow, debridVars>>

\* 'debrid:authenticate' up to `await provider.authenticate(...)`:
\* validateInput, getDebridProvider, then authenticate up to its await.
IpcAuthenticate(payload, providerId, k) ==
    /\ authIpc.phase # "awaiting"
    /\ Cardinality(UsedAuth) < MaxAuthCalls
    /\ ipc' = Request("debrid:authenticate", payload,
                      Dispatch("debrid:authenticate", payload), FALSE)
    /\ IF ~validateInput("debrid:authenticate", payload)
       THEN /\ authIpc' = [phase |-> "done", outcome |-> ValidationFailed,
                           call |-> 0]
            /\ UNCHANGED debridVars
       ELSE IF providerId # DebridId
       THEN /\ authIpc' = [phase |-> "done", outcome |-> ProviderNotFound,
                           call |-> 0]
            /\ UNCHANGED debridVars
       ELSE \E c \in AuthCalls :
               /\ AuthStart(c, k)
               /\ authIpc' = IF Falsy(k)
                             THEN [phase |-> "done", outcome |-> AuthFailed,
                                   call |-> c]
                             ELSE [phase |-> "awaiting", outcome |-> None,
                                   call |-> c]
    /\ UNCHANGED <<store, flow>>

\* authenticate returns the account; the handler runs the INSERT OR REPLACE
\* and returns the account, or the statement throws and the handler
\* rethrows.
IpcAuthResolved ==
    /\ authIpc.phase = "awaiting"
    /\ AuthResolve(authIpc.call)
    /\ LET acct == AccountOf(auth[authIpc.call].key)
           row == [id |-> acct.id, provider_id |-> acct.providerId]
       IN  \* the statement runs when the connection is open and the foreign
           \* key provider_id finds its row in provider_configs
           IF store.open /\ row.provider_id \in store.configs
           THEN /\ store' = [store EXCEPT
                                !.accounts = InsertOrReplace(store.accounts, row)]
                /\ authIpc' = [authIpc EXCEPT !.phase = "done", !.outcome = "ok"]
           ELSE /\ authIpc' = [authIpc EXCEPT !.phase = "done",
                                              !.outcome = "store error"]
                /\ UNCHANGED store
    /\ UNCHANGED <<ipc, flow>>

\* authenticate throws; the handler rethrows.
IpcAuthRejected ==
    /\ authIpc.phase = "awaiting"
    /\ AuthReject(authIpc.call)
    /\ authIpc' = [authIpc EXCEPT !.phase = "done", !.outcome = AuthFailed]
    /\ UNCHANGED <<ipc, store, flow>>

\* 'debrid:status' {providerId: 'real-debrid'}: checkStatus up to its guard.
IpcStatus ==
    /\ authIpc.phase # "awaiting"
    /\ ipc' = Request("debrid:status", "valid",
                      Answer(IF NotAuthenticated(apiKey)
                             THEN NotAuthenticatedError ELSE "handled", 1, 0),
                      AuthRequestFailed)
    /\ UNCHANGED <<store, authIpc, flow, debridVars>>

\* db.close() of the quit handler.
StoreClose ==
    /\ store.open
    /\ store' = [store EXCEPT !.open = FALSE]
    /\ UNCHANGED <<ipc, authIpc, flow, debridVars>>

\* One invoke of searchAndPlay fails: the flow ends with that error.
FlowFails(channel, answer) ==
    [flow EXCEPT !.step = "failed", !.error = answer.outcome,
                 !.invoked = flow.invoked \cup {channel}]

\* Step 1 of searchAndPlay: 'torrent:search'; no torrent found ends it.
FlowSearch(found) ==
    /\ flow.step = "search"
    /\ LET answer == Dispatch("torrent:search", "valid")
       IN  /\ ipc' = Request("torrent:search", "valid", answer, FALSE)
           /\ flow' = IF answer.outcome # "handled"
                      THEN FlowFails("torrent:search", answer)
                      ELSE [flow EXCEPT
                              !.step = IF found THEN "resolve" ELSE "failed",
                              !.error = IF found THEN None
                                        ELSE "No torrents found",
                              !.invoked = flow.invoked \cup {"torrent:search"}]
    /\ UNCHANGED <<store, authIpc, debridVars>>

\* Step 2: 'debrid:resolve-magnet'; the loop of step 3 is entered unless the
\* returned transfer is ready or in error.
FlowResolve(status) ==
    /\ flow.step = "resolve"
    /\ LET answer == Dispatch("debrid:resolve-magnet", "valid")
       IN  /\ ipc' = Request("debrid:resolve-magnet", "valid", answer, FALSE)
           /\ flow' = IF answer.outcome # "handled"
                      THEN FlowFails("debrid:resolve-magnet", answer)
                      ELSE [flow EXCEPT
                              !.step = IF status \in {"ready", "error"}
                                       THEN "stream" ELSE "poll",
                              !.status = status,
                              !.remoteReady = (status = "ready"),
                              !.invoked = flow.invoked
                                             \cup {"debrid:resolve-magnet"}]
    /\ UNCHANGED <<store, authIpc, debridVars>>

\* The remote finishes the download while the flow waits.
FlowRemoteReady ==
    /\ flow.step = "poll"
    /\ ~flow.remoteReady
    /\ flow' = [flow EXCEPT !.remoteReady = TRUE]
    /\ UNCHANGED <<ipc, store, authIpc, debridVars>>

\* Step 3, one turn of the loop: 'debrid:get-transfer-status'.
FlowPoll ==
    /\ flow.step = "poll"
    /\ flow.polls < MaxPolls
    /\ LET answer == Dispatch("debrid:get-transfer-status", "valid")
           status == IF flow.remoteReady THEN "ready" ELSE flow.status
       IN  /\ ipc' = Request("debrid:get-transfer-status", "valid", answer,
                             FALSE)
           /\ flow' = IF answer.outcome # "handled"
                      THEN FlowFails("debrid:get-transfer-status", answer)
                      ELSE [flow EXCEPT
                              !.step = IF status = "ready" THEN "stream"
                                       ELSE "poll",
                              !.status = status,
                              !.polls = flow.polls + 1,
                              !.invoked = flow.invoked
                                         \cup {"debrid:get-transfer-status"}]
    /\ UNCHANGED <<store, authIpc, debridVars>>

\* Step 4: 'debrid:get-stream-url', then the player gets the URL.
FlowGetStreamUrl(ok) ==
    /\ flow.step = "stream"
    /\ LET answer == Dispatch("debrid:get-stream-url", "valid")
       IN  /\ ipc' = Request("debrid:get-stream-url", "valid", answer, FALSE)
           /\ flow' = IF answer.outcome # "handled"
                      THEN FlowFails("debrid:get-stream-url", answer)
                      ELSE [flow EXCEPT
                              !.step = IF ok /\ flow.status = "ready"
                                       THEN "playing" ELSE "failed",
                              !.error = IF ok /\ flow.status = "ready"
                                        THEN None ELSE RemoteError,
                              !.invoked = flow.invoked
                                             \cup {"debrid:get-stream-url"}]
    /\ UNCHANGED <<store, authIpc, debridVars>>

\* searchAndPlay is called again.
FlowRestart ==
    /\ flow.step \in {"failed", "playing"}
    /\ flow' = IdleFlow
    /\ UNCHANGED <<ipc, store, authIpc, debridVars>>

IpcNext ==
    \/ \E channel \in InputChannels, payload \in Payloads :
          Invoke(channel, payload)
    \/ \E payload \in Payloads, providerId \in {DebridId, "unknown"},
          k \in ApiKeys : IpcAuthenticate(payload, providerId, k)
    \/ IpcAuthResolved
    \/ IpcAuthRejected
    \/ IpcStatus
    \/ StoreClose

FlowNext ==
    \/ \E found \in BOOLEAN : FlowSearch(found)
    \/ \E status \in {"queued", "downloading", "ready", "error"} :
          FlowResolve(status)
    \/ FlowRemoteReady
    \/ FlowPoll
    \/ \E ok \in BOOLEAN : FlowGetStreamUrl(ok)
    \/ FlowRestart
    \/ \E channel \in InputChannels, payload \in Payloads :
          Invoke(channel, payload)

\* The store as the handlers may find it: provider_configs is filled by no
\* statement of the program, so its row for the backend is there or not.
HandlerInit ==
    /\ SearchInit /\ DebridInit /\ TransferInit /\ ScrapeInit /\ AppInit
    /\ ipc = NoRequest
    /\ store \in {[FreshStore EXCEPT !.configs = c] : c \in SUBSET {DebridId}}
    /\ authIpc = IdleAuthIpc
    /\ flow = IdleFlow

ExtraInit == ScrapeInit /\ AppInit /\ IpcInit

Init == SearchInit /\ DebridInit /\ TransferInit /\ ExtraInit

\* The remote account already holds a torrent, added in an earlier session.
StreamInit ==
    /\ SearchInit
    /\ DebridInit
    /\ ExtraInit
    /\ \E content \in Contents, status \in RemoteStatuses :
          remote = Torrent("T1", status, content)
    /\ remoteIds = {"T1"}
    /\ xfer = IdleXfer
    /\ lastSeen = [id |-> None, status |-> None]
    /\ deleted = {}

SearchSpec ==
    Init /\ [][SearchNext /\ UNCHANGED <<debridVars, transferVars, extraVars>>]_vars

DebridSpec ==
    Init /\ [][DebridNext /\ UNCHANGED <<searchVars, transferVars, extraVars>>]_vars

TransferSpec ==
    Init /\ [][TransferNext /\ UNCHANGED <<searchVars, extraVars>>]_vars

StreamSpec ==
    StreamInit /\ [][StreamNext /\ UNCHANGED <<searchVars, extraVars>>]_vars

ScrapeSpec ==
    Init /\ [][ScrapeNext /\ UNCHANGED <<searchVars, debridVars, transferVars,
                                          appVars, ipcVars>>]_vars

AppSpec ==
    Init /\ [][AppNext /\ UNCHANGED <<searchVars, transferVars, scrapeVars,
                                       ipcVars>>]_vars

HandlerSpec ==
    HandlerInit /\ [][IpcNext /\ UNCHANGED <<searchVars, transferVars,
                                              scrapeVars, appVars>>]_vars

FlowSpec ==
    Init /\ [][FlowNext /\ UNCHANGED <<searchVars, transferVars, scrapeVars,
                                        appVars>>]_vars

\* A request that is not answered is failed by its timeout (axios timeout:
\* 30000), and the event loop delivers a settled operation to its caller.
FairTransferSpec ==
    /\ TransferSpec
    /\ WF_vars(RequestFails /\ UNCHANGED <<searchVars, debridVars, extraVars>>)

\* A search request that is not answered is failed by its timeout (axios
\* timeout: 10000), so no search promise stays pending for ever, and the
\* event loop resumes a handler whose await is ready.
FairSearchSpec ==
    /\ SearchSpec
    /\ WF_vars((\E i \in 1..Cardinality(ScraperIds) : BackendReject(i))
                 /\ UNCHANGED <<debridVars, transferVars, extraVars>>)
    /\ WF_vars(SearchAllReturn /\ UNCHANGED <<debridVars, transferVars, extraVars>>)

(***************************************************************************)
(* Properties                                                              *)
(***************************************************************************)
InCall == phase \in {"awaiting", "returned", "threw"}
SettledWith(st) == {i \in DOMAIN outcomes : outcomes[i].status = st}
InSeq(x, s) == \E j \in DOMAIN s : s[j] = x

\* C1: a searchAll or searchEpisodeAll call with valid input made while no
\* registered search backend is enabled throws the no-scrapers error, starts
\* no backend search and returns no list.
C1_NoBackendsFails ==
    (InCall /\ ValidInput(kind, callData) /\ enabledAtCall = {}) =>
        /\ phase = "threw"
        /\ error = "NoScrapersAvailable"
        /\ \A s \in ScraperIds : invoked[s] = 0
        /\ outcomes = <<>>
        /\ result = <<>>

C1_Witness ==
    /\ phase = "threw"
    /\ error = "NoScrapersAvailable"
    /\ kind = "episode"
    /\ ValidInput(kind, callData)
    /\ Len(scrapers) = 3

\* C2: a call with valid input and at least one enabled backend does not
\* throw, and whatever subset of the backend searches failed, the returned
\* list holds exactly the candidates of the searches that succeeded.
C2_PartialFailureTolerated ==
    (InCall /\ ValidInput(kind, callData) /\ enabledAtCall # {}) =>
        /\ phase # "threw"
        /\ phase = "returned" =>
              /\ \A i \in SettledWith("fulfilled") :
                    \A k \in DOMAIN outcomes[i].value : InSeq(outcomes[i].value[k], result)
              /\ \A j \in DOMAIN result :
                    \E i \in SettledWith("fulfilled") :
                        /\ targets[i] = result[j].providerId
                        /\ InSeq(result[j], outcomes[i].value)

C2_Witness ==
    /\ phase = "returned"
    /\ Len(targets) = 3
    /\ Cardinality(SettledWith("rejected")) = 1
    /\ \A i \in SettledWith("fulfilled") : outcomes[i].value # <<>>
    /\ Len(result) >= 2

\* C3: when every enabled backend's search fails, the call fails: it does
\* not return a list as a search that found nothing does.
C3_AllFailedSurfaces ==
    (InCall /\ targets # <<>> /\ SettledWith("rejected") = DOMAIN outcomes) =>
        phase # "returned"

\* the place a returned candidate came from: its backend's position among the
\* targets, then its position in that backend's own list
OriginBackend(x) == IndexOf(targets, x.providerId)
OriginPosition(x) == IndexOf(outcomes[OriginBackend(x)].value, x)

\* C4: the returned list is ordered by descending seeder count; candidates
\* with equal counts keep backend registration order and, within a backend,
\* that backend's own order, whatever the order in which the searches
\* completed.
C4_StableDescendingOrder ==
    phase = "returned" =>
        \A i, j \in DOMAIN result :
            i < j =>
                \/ result[i].seeders > result[j].seeders
                \/ /\ result[i].seeders = result[j].seeders
                   /\ \/ OriginBackend(result[i]) < OriginBackend(result[j])
                      \/ /\ OriginBackend(result[i]) = OriginBackend(result[j])
                         /\ OriginPosition(result[i]) < OriginPosition(result[j])

C4_Witness ==
    /\ phase = "returned"
    /\ Len(settleOrder) = 3
    /\ settleOrder[1] > settleOrder[2]
    /\ settleOrder[2] > settleOrder[3]
    /\ \E i, j \in DOMAIN result :
          /\ i < j
          /\ result[i].seeders = result[j].seeders
          /\ result[i].providerId # result[j].providerId
    /\ \E i, j \in DOMAIN result :
          /\ i < j
          /\ result[i].seeders = result[j].seeders
          /\ result[i].providerId = result[j].providerId
    /\ \E i, j \in DOMAIN result : result[i].seeders > result[j].seeders

C5_FanOut ==
    /\ phase \in {"awaiting", "returned"} =>
          /\ \A s \in ScraperIds : invoked[s] = IF s \in enabledAtCall THEN 1 ELSE 0
          /\ DOMAIN outcomes = DOMAIN targets
    /\ phase = "returned" => SettledWith("pending") = {}

\* C5: one call starts exactly one search on every enabled backend and none
\* on a backend that is not enabled, all of them before any has settled; it
\* returns only when all have settled, and it does return once they have.
C5_FanOutAndCollect ==
    /\ []C5_FanOut
    /\ (phase = "awaiting") ~> (phase = "returned")

C5_Witness ==
    /\ phase = "returned"
    /\ Len(scrapers) = 3
    /\ Len(targets) = 2
    /\ SettledWith("rejected") # {}
    /\ SettledWith("fulfilled") # {}

RECURSIVE TotalLength(_)
TotalLength(outs) ==
    IF outs = <<>> THEN 0 ELSE Len(Head(outs).value) + TotalLength(Tail(outs))

C7_FailedAuthLeavesUnauthenticated ==
    (op.name = "checkStatus" /\ op.afterAuthFail) =>
        /\ op.outcome = "NotAuthenticated"
        /\ op.requests = 0

C7_Witness ==
    /\ op.name = "checkStatus"
    /\ op.afterAuthFail
    /\ op.outcome = "NotAuthenticated"
    /\ auth[1].phase = "ok"
    /\ auth[2].phase = "failed"
    /\ auth[2].key = "bad"

\* C8: whenever no authenticate call is in flight, the account field is set
\* only if the session token is set.
C8_AccountOnlyWithToken ==
    AwaitingAuth = {} => (account # NoAccount => apiKey # None)

\* C9: an operation started before any authenticate has succeeded in the
\* session fails as not authenticated and sends no remote request.
C9_NoRequestBeforeVerified ==
    (op.phase # "idle" /\ op.unverified) =>
        /\ op.outcome = "NotAuthenticated"
        /\ op.requests = 0

AddMagnetCall == xfer.name = "addMagnet"

\* C11: submit (resolve-magnet / addMagnet) with a malformed magnet URI,
\* with or without the 'magnet:' prefix, fails with the invalid-magnet error
\* and creates no transfer on the remote service; on an unauthenticated
\* backend it fails with the not-authenticated error.
C11_MalformedMagnetRejected ==
    /\ (AddMagnetCall /\ ~WellFormedMagnet(xfer.uri)) =>
          /\ xfer.created = None
          /\ xfer.step = "done" =>
                /\ xfer.outcome = "threw"
                /\ \/ xfer.error = ValidationFailed
                   \/ xfer.error = NotAuthenticatedError /\ xfer.requests = 0
    /\ (AddMagnetCall /\ xfer.step = "done" /\ xfer.requests = 0
          /\ WellFormedMagnet(xfer.uri)) =>
          xfer.outcome = "threw" /\ xfer.error = NotAuthenticatedError

StreamCall == xfer.name = "getStreamUrl"

\* The info read of the call in progress has been answered.
InfoRead == xfer.snap # NoTorrent

\* The call in progress has sent POST /unrestrict/link.
UnrestrictSent == xfer.link # 0

\* C12: getStreamUrl on a transfer whose remote status is not downloaded
\* fails with the not-ready error and sends no unrestrict request; an
\* unrestrict request is sent only after the info read of the same call
\* reported downloaded.
C12_NotReadyNeverUnrestricts ==
    /\ (StreamCall /\ InfoRead /\ xfer.snap.status # "downloaded") =>
          /\ xfer.step = "done"
          /\ xfer.outcome = "threw"
          /\ xfer.error = NotReadyError
          /\ ~UnrestrictSent
          /\ xfer.requests = 1
    /\ (xfer.step = "unrestrict" \/ UnrestrictSent) =>
          /\ StreamCall
          /\ InfoRead
          /\ xfer.snap.status = "downloaded"

C12_Witness ==
    /\ StreamCall
    /\ xfer.snap.status = "downloading"
    /\ xfer.snap.links # <<>>
    /\ xfer.error = NotReadyError

\* The call in progress read a ready transfer.
ReadyRead == StreamCall /\ InfoRead /\ xfer.snap.status = "downloaded"

\* C13: getStreamUrl on a ready transfer with an explicit fileId that matches
\* none of the transfer's files fails and sends no unrestrict request; it
\* does not fall back to another file.
C13_UnknownFileIdFails ==
    (/\ ReadyRead
     /\ xfer.fileId # None
     /\ FindIndex(xfer.snap.files, ParseInt(xfer.fileId)) = NotFound) =>
        /\ ~UnrestrictSent
        /\ xfer.step = "done"
        /\ xfer.outcome = "threw"

\* C14: getStreamUrl on a ready transfer that has zero files fails and sends
\* no unrestrict request, whatever the transfer's link list contains.
C14_NoFilesFails ==
    (ReadyRead /\ Len(xfer.snap.files) = 0) =>
        /\ ~UnrestrictSent
        /\ xfer.step = "done"
        /\ xfer.outcome = "threw"

\* File i is a video file of the largest size among the video files.
IsLargestVideo(files, i) ==
    /\ IsVideo(files[i].path)
    /\ \A j \in 1..Len(files) :
          IsVideo(files[j].path) => files[j].bytes <= files[i].bytes

\* C15: for a ready transfer with more than one file and no explicit fileId,
\* getStreamUrl unrestricts the link of the largest file with a video
\* extension, and the first link only if no file has a video extension;
\* also when the link list is shorter than the file list.
C15_LargestVideoUnrestricted ==
    (/\ ReadyRead
     /\ xfer.fileId = None
     /\ Len(xfer.snap.files) > 1
     /\ UnrestrictSent) =>
        IF HasVideo(xfer.snap.files)
        THEN \E i \in 1..Len(xfer.snap.files) :
                /\ IsLargestVideo(xfer.snap.files, i)
                /\ xfer.link = i
        ELSE xfer.link = xfer.snap.links[1]

\* The ids a sequence of ids or of files names.
IdsOf(files) == {files[i].id : i \in 1..Len(files)}

Range(s) == {s[i] : i \in 1..Len(s)}

\* C16: when addMagnet sees a non-empty file list, its selectFiles request
\* names every offered file id, never a strict subset; selectFiles is sent
\* by no other operation.
C16_SelectsEveryFile ==
    /\ (AddMagnetCall /\ InfoRead /\ Len(xfer.snap.files) > 0) =>
          /\ xfer.requests = 3
          /\ Range(xfer.selected) = IdsOf(xfer.snap.files)
          /\ Range(xfer.selected) = IdsOf(remote.files)
    /\ (xfer.step = "select" \/ xfer.selected # <<>>) =>
          AddMagnetCall /\ Len(xfer.snap.files) > 0

C16_Witness ==
    /\ AddMagnetCall
    /\ xfer.step = "select"
    /\ Len(xfer.snap.files) = MaxFiles
    /\ Len(xfer.selected) = MaxFiles

\* An addMagnet call sends at most three requests (addMagnet, info,
\* selectFiles) and reads the torrent's info at most once.
AddMagnetBounded ==
    AddMagnetCall =>
        /\ xfer.requests <= 3
        /\ xfer.infoReads <= 1
        /\ (xfer.step = "done" /\ xfer.outcome = "returned") =>
              /\ xfer.value.id = xfer.created
              /\ xfer.value.status = MapStatus(xfer.snap.status)

DeleteCall == xfer.name = "deleteTransfer"

\* C18: when the remote rejects a delete request, deleteTransfer and
\* 'debrid:delete-transfer' fail with the remote error; success is reported
\* only for a delete the remote accepted, so deleting an id again after a
\* successful delete fails.
C18_RejectedDeleteFails ==
    /\ (DeleteCall /\ xfer.rejected) =>
          /\ xfer.step = "done"
          /\ xfer.outcome = "threw"
          /\ xfer.error = RemoteError
    /\ (DeleteCall /\ xfer.step = "done" /\ xfer.outcome = "returned") =>
          /\ ~xfer.rejected
          /\ ~xfer.gone
          /\ xfer.id \in deleted
          /\ remote.id # xfer.id
    /\ (DeleteCall /\ xfer.gone /\ xfer.step = "done") =>
          xfer.outcome = "threw"

C18_Witness ==
    /\ DeleteCall
    /\ xfer.gone
    /\ xfer.rejected
    /\ xfer.step = "done"
    /\ xfer.error = RemoteError

\* C19: every Transfer the backend produces (from addMagnet or a status
\* read) with status error carries a non-empty error detail.
C19_ErrorHasDetail ==
    (xfer.value # NoTransfer /\ xfer.value.status = "error") =>
        ~Falsy(xfer.value.error)

\* The order of the Transfer statuses.
TransferStatusOrder == <<"queued", "processing", "downloading", "ready">>

TransferRank(s) == IndexOf(TransferStatusOrder, s)

\* C20: for one transfer, the statuses obtained by successive reads never
\* move backwards in the order queued, processing, downloading, ready, and
\* after ready or error every later read yields the same status; for every
\* forward-moving sequence of remote statuses, unlisted ones included.
C20_StatusNeverGoesBack ==
    (/\ xfer.step = "done"
     /\ xfer.value # NoTransfer
     /\ lastSeen.id = xfer.value.id) =>
        /\ lastSeen.status \in {"ready", "error"} =>
              xfer.value.status = lastSeen.status
        /\ xfer.value.status # "error" =>
              TransferRank(xfer.value.status) >= TransferRank(lastSeen.status)

\* C28: whenever addMagnet raises an error, no transfer created by that call
\* remains on the remote service: a failure after the remote accepted the
\* magnet leaves no remote transfer whose id the caller never received.
C28_FailedSubmitLeavesNothing ==
    (/\ AddMagnetCall
     /\ xfer.step = "done"
     /\ xfer.outcome = "threw"
     /\ xfer.created # None) =>
        remote.id # xfer.created

(***************************************************************************)
(* Properties of one search backend                                        *)
(***************************************************************************)
\* A number written with at least two digits.
TwoDigits(n) == IF n < 10 THEN <<"0", ToString(n)>> ELSE String(n)

\* name + ' S' + season + 'E' + episode, each with at least two digits.
ReferenceQuery(seriesName, season, episode) ==
    seriesName \o <<" ", "S">> \o TwoDigits(season) \o <<"E">>
               \o TwoDigits(episode)

\* C23: searchEpisode(name, season, episode) sends the same remote query and
\* has the same outcome (same candidates or the same failure) as
\* search(name + ' S' + season + 'E' + episode, series), the numbers padded
\* with zeros to at least two digits.
C23_EpisodeSearchIsSearch ==
    scrape.method = "searchEpisode" =>
        LET q == ReferenceQuery(scrape.seriesName, scrape.season,
                                scrape.episode)
        IN  /\ scrape.query = q
            /\ scrape.mediaType = "series"
            /\ scrape.url = SearchUrl(q)
            /\ scrape.step = "done" =>
                  \/ /\ scrape.outcome = "returned"
                     /\ scrape.value = SortedResults(DefaultScraper, scrape.html)
                  \/ /\ scrape.outcome = "threw"
                     /\ scrape.value = <<>>

C23_Witness ==
    /\ scrape.method = "searchEpisode"
    /\ scrape.season < 10
    /\ scrape.episode >= 10
    /\ scrape.step = "done"
    /\ scrape.outcome = "returned"
    /\ Len(scrape.value) > 0

\* C24: every list a search backend's search returns is sorted descending by
\* seeder count, for all parsed rows, rows with non-numeric seeder text
\* (counted as 0) and rows dropped for lacking an info hash included.
C24_SearchSortedBySeeders ==
    (scrape.step = "done" /\ scrape.outcome = "returned") =>
        /\ \A i, j \in 1..Len(scrape.value) :
              i < j => scrape.value[i].seeders >= scrape.value[j].seeders
        /\ Len(scrape.value) =
              Cardinality({n \in 1..Len(scrape.html) :
                              scrape.html[n].hash # NoHash})

C24_Witness ==
    /\ scrape.step = "done"
    /\ scrape.outcome = "returned"
    /\ Len(scrape.html) = 3
    /\ scrape.html[1].seedersText = "abc"
    /\ scrape.html[1].hash # NoHash
    /\ scrape.html[2].hash = NoHash
    /\ scrape.html[3].seedersText = "1"
    /\ scrape.html[3].hash # NoHash
    /\ Len(scrape.value) = 2
    /\ scrape.value[1].seeders = 1
    /\ scrape.value[2].seeders = 0

(***************************************************************************)
(* Properties of the registry and of the application lifecycle             *)
(***************************************************************************)
\* getProvider(id), getScraper(id), getDebridProvider(id) (lines 42-52).
getProvider(id) == registry.providers[id]
getScraper(id) == registry.scrapers[id]
getDebridProvider(id) == registry.debridProviders[id]

\* The partition of type `type` returns `b` under the id `id`.
InPartition(type, id, b) ==
    CASE type = "scraper" -> getScraper(id) = b
      [] type = "debrid"  -> getDebridProvider(id) = b
      [] OTHER            -> FALSE

\* C21: after any sequence of register calls, get(id) returns the backend
\* registered last under that id, that backend is returned by the partition
\* of its own type and by no other, no partition returns an earlier instance
\* of the id, and registering a backend a second time changes nothing.
C21_RegistryIsOneMapping ==
    /\ \A id \in BackendIds :
          /\ getProvider(id) = lastRegistered[id]
          /\ getProvider(id) # NoBackend =>
                \A type \in {"scraper", "debrid"} :
                   IF type = getProvider(id).type
                   THEN InPartition(type, id, getProvider(id))
                   ELSE InPartition(type, id, NoBackend)
    /\ \A b \in Backends :
          registerProvider(registerProvider(registry, b), b)
             = registerProvider(registry, b)

\* The lifecycle call `call` (initializeAll or shutdownAll) invoked the
\* lifecycle method once on every backend `providers` held when it was
\* called and on no other, and did not raise.
CalledEachOnce(call) ==
    /\ \A b \in Backends :
          call.calls[b] = IF b \in call.snapshot THEN 1 ELSE 0
    /\ call.failed \subseteq call.snapshot
    /\ call.phase \in {"awaiting", "returned"}

C30_StartAndQuitOrdered ==
    /\ app.handlers => initAll.phase = "returned"
    /\ served.kind # None => ~served.initPending
    /\ ~app.dbOpen => shutAll.phase = "returned"

\* A request has been served and the store has been closed.
C30_Witness ==
    /\ served.kind # None
    /\ ~app.dbOpen

\* C29: the enabled flag of a backend is true exactly when its initialize
\* completed more recently than its shutdown; and a request served after
\* shutdownAll completed, with no initializeAll or authenticate since, fails:
\* a search with the no-scrapers error, an acceleration operation with the
\* not-authenticated error and no remote request.
C29_NothingServedAfterShutdown ==
    /\ \A b \in Backends :
          backendEnabled[b] <=> lastLifecycle[b] = "initialize"
    /\ served.afterShutdown /\ served.kind = "search" =>
          /\ served.outcome = NoScrapersError
          /\ served.requests = 0
    /\ served.afterShutdown /\ served.kind = "debrid" =>
          /\ served.outcome = "NotAuthenticated"
          /\ served.requests = 0

(***************************************************************************)
(* Properties of the request channels, the account store and the flow      *)
(***************************************************************************)
\* C25: a request with malformed input (a missing payload included) on a
\* channel whose handler takes input is rejected with the validation
\* failure, with no call of a backend and no statement on the store.
C25_MalformedInputRejected ==
    ipc.channel \in InputChannels /\ Malformed(ipc.channel, ipc.payload) =>
        /\ ipc.outcome = ValidationFailed
        /\ ipc.backendCalls = 0
        /\ ipc.dbStatements = 0

\* C26: every channel the search-and-play flow invokes is accepted by the
\* preload whitelist and served by a registered handler, so no step of the
\* flow ends on a refused channel and the poll loop can see the transfer
\* become ready.
C26_FlowChannelsServed ==
    /\ flow.invoked \subseteq validChannels \cap HandledChannels
    /\ flow.error \notin {InvalidChannel, NoHandler}

AccountRowsOf(providerId) ==
    {r \in store.accounts : r.provider_id = providerId}

\* C27: after a failed 'debrid:authenticate' request, whatever failed, the
\* backend is not authenticated and a following checkStatus fails with the
\* not-authenticated error; after a successful one the store holds exactly
\* one account row of the backend.
C27_FailedAuthenticateLeavesNoSession ==
    /\ AuthRequestFailed => NotAuthenticated(apiKey)
    /\ ipc.channel = "debrid:status" /\ ipc.afterFailedAuth =>
          ipc.outcome = NotAuthenticatedError
    /\ authIpc.phase = "done" /\ authIpc.outcome = "ok" =>
          Cardinality(AccountRowsOf(DebridId)) = 1

====
